---- MODULE Spec2Model ----
(***************************************************************************)
(* brainstorm: a brainfuck compiler (src/src/parser.rs) and interpreter    *)
(* (src/src/interpreter.rs).  Indices, jump targets and unit bounds keep   *)
(* the zero-based values of the Rust code; a TLA+ sequence is one-based,   *)
(* so element i of a Vec is read as seq[i + 1].                            *)
(***************************************************************************)
EXTENDS Integers, Sequences, FiniteSets, TLC

\* ------------------------------------------------------------------ bounds
\* Source text offered to the parser: sum over lines of (characters + 1).
MaxSrc == 5
\* Width of usize / isize, scaled down from 64 bits.
UsizeBits == 16

\* ------------------------------------------------------- machine integers
UsizeMod == 2 ^ UsizeBits

IsizeMax == (UsizeMod \div 2) - 1

IsizeMin == -(UsizeMod \div 2)

\* u8::saturating_add in place of u8::wrapping_add.
saturating_add_u8(a, b) == IF a + b > 255 THEN 255 ELSE a + b

\* u8::wrapping_add
wrapping_add_u8(a, b) == (a + b) % 256

\* isize::wrapping_add
wrapping_add_isize(a, b) ==
    LET s == a + b
    IN  IF s > IsizeMax THEN s - UsizeMod
        ELSE IF s < IsizeMin THEN s + UsizeMod
        ELSE s

\* ------------------------------------------------------------------ tokens
\* enum Token; value is 0 for the kinds that carry none.
Tok(kind, value) == [kind |-> kind, value |-> value]

\* Option<Token>::None
NoToken == Tok("None", 0)

\* struct Unit
Unit(description, start, end) ==
    [description |-> description, start |-> start, end |-> end]

NoUnitName == <<"No Unit Name">>

NoUnitInformation == <<"No Unit Information">>

\* Result<Program, ParserError> not yet produced, or an Err.
NoProgram == [units |-> <<>>, tokens |-> <<>>]

\* Characters of the source text.  ";" and " " reach the `_ => continue`
\* arm of the character loop like any other unrecognised character.
Alphabet == {"+", "-", ">", "<", ".", ",", "[", "]", "#", ";", " "}

VARIABLES
    src,          \* lines the reader has yielded so far
    parse_print,  \* argument of Program::parse
    tokens,       \* local of Program::parse
    next_token,   \* local of Program::parse
    jump_stack,   \* local of Program::parse
    units,        \* local of Program::parse
    pstatus,      \* "Parsing", or how Program::parse returned
    program,      \* the Program returned by Ok; Interpreter.program
    tape,         \* Interpreter.tape
    pc,           \* Interpreter.pc
    ptr,          \* Interpreter.ptr
    input,        \* Interpreter.input: what the reader has still to yield
    eof_behaviour, \* Interpreter.eof_behaviour
    current_unit, \* Interpreter.current_unit
    breakpoints,  \* Interpreter.breakpoints
    output,       \* bytes written to stdout by Token::Output
    call,         \* the Interpreter method in progress, "idle" between calls
    starting_unit, \* local of Interpreter::step_unit
    step_ret,     \* what the latest Interpreter::step returned
    result,       \* the latest call that returned, and what it returned
    running,      \* Debugger.running
    dbg_input,    \* local `input` of Debugger::run at the end of a turn of its loop
    line_read,    \* the line read_line read last
    dbg,          \* where Debugger::run is, "none" when there is no Debugger
    printed       \* what the latest turn of the loop of Debugger::run printed

parser_vars == <<src, parse_print, tokens, next_token, jump_stack, units, pstatus>>

engine_vars == <<tape, pc, ptr, input, eof_behaviour, current_unit, breakpoints,
                 output, call, starting_unit, step_ret, result>>

debugger_vars == <<running, dbg_input, line_read, dbg, printed>>

vars == <<src, parse_print, tokens, next_token, jump_stack, units, pstatus, program,
          tape, pc, ptr, input, eof_behaviour, current_unit, breakpoints,
          output, call, starting_unit, step_ret, result,
          running, dbg_input, line_read, dbg, printed>>

\* ------------------------------------------------------------------ parser
\* Program::push_token applied to (tokens, token); the caller clears token.
push_token(toks, token) ==
    IF token.kind = "None" THEN toks
    ELSE IF token.kind \in {"Increment", "Move"} /\ token.value = 0 THEN toks
    ELSE Append(toks, token)

\* The '+' | '-' arm.
parse_increment(p, char) ==
    LET initial_value == IF char = "+" THEN 1 ELSE 255
    IN  IF p.next_token.kind = "Increment"
        THEN [p EXCEPT !.next_token =
                Tok("Increment", wrapping_add_u8(p.next_token.value, initial_value))]
        ELSE [p EXCEPT !.tokens = push_token(p.tokens, p.next_token),
                       !.next_token = Tok("Increment", initial_value)]

\* The '>' | '<' arm.
parse_move(p, char) ==
    LET initial_value == IF char = ">" THEN 1 ELSE -1
    IN  IF p.next_token.kind = "Move"
        THEN [p EXCEPT !.next_token =
                Tok("Move", wrapping_add_isize(p.next_token.value, initial_value))]
        ELSE [p EXCEPT !.tokens = push_token(p.tokens, p.next_token),
                       !.next_token = Tok("Move", initial_value)]

\* The '[' arm.
parse_open(p) ==
    LET toks == Append(push_token(p.tokens, p.next_token), Tok("JumpZero", 0))
    IN  [p EXCEPT !.tokens = toks,
                  !.next_token = NoToken,
                  !.jump_stack = Append(p.jump_stack, Len(toks))]

\* parse_close with the '[' made to jump to its ']' instead of past it.
parse_close_onto(p) ==
    LET toks == push_token(p.tokens, p.next_token)
    IN  IF p.jump_stack = <<>>
        THEN [p EXCEPT !.tokens = toks, !.next_token = NoToken, !.status = "MissingOpen"]
        ELSE LET start == p.jump_stack[Len(p.jump_stack)]
                 patched == [toks EXCEPT ![(start - 1) + 1] = Tok("JumpZero", Len(toks))]
             IN  [p EXCEPT !.tokens = Append(patched, Tok("JumpNotZero", start)),
                           !.next_token = NoToken,
                           !.jump_stack = SubSeq(p.jump_stack, 1, Len(p.jump_stack) - 1)]

\* parse_close with the '[' made to jump two past its ']'.
parse_close_beyond(p) ==
    LET toks == push_token(p.tokens, p.next_token)
    IN  IF p.jump_stack = <<>>
        THEN [p EXCEPT !.tokens = toks, !.next_token = NoToken, !.status = "MissingOpen"]
        ELSE LET start == p.jump_stack[Len(p.jump_stack)]
                 patched == [toks EXCEPT ![(start - 1) + 1] =
                                Tok("JumpZero", Len(toks) + 2)]
             IN  [p EXCEPT !.tokens = Append(patched, Tok("JumpNotZero", start)),
                           !.next_token = NoToken,
                           !.jump_stack = SubSeq(p.jump_stack, 1, Len(p.jump_stack) - 1)]

\* The ']' arm.
parse_close(p) ==
    LET toks == push_token(p.tokens, p.next_token)
    IN  IF p.jump_stack = <<>>
        THEN [p EXCEPT !.tokens = toks, !.next_token = NoToken, !.status = "MissingOpen"]
        ELSE LET start == p.jump_stack[Len(p.jump_stack)]
                 patched == [toks EXCEPT ![(start - 1) + 1] =
                                Tok("JumpZero", Len(toks) + 1)]
             IN  [p EXCEPT !.tokens = Append(patched, Tok("JumpNotZero", start)),
                           !.next_token = NoToken,
                           !.jump_stack = SubSeq(p.jump_stack, 1, Len(p.jump_stack) - 1)]

\* parse_char with '#' ending the pending run also when parse_print is false.
parse_char_hash_flushes(p, char, pp) ==
    CASE char \in {"+", "-"} -> parse_increment(p, char)
      [] char \in {">", "<"} -> parse_move(p, char)
      [] char = "." ->
            [p EXCEPT !.tokens = Append(push_token(p.tokens, p.next_token), Tok("Output", 0)),
                      !.next_token = NoToken]
      [] char = "," ->
            [p EXCEPT !.tokens = push_token(p.tokens, p.next_token),
                      !.next_token = Tok("Input", 0)]
      [] char = "[" -> parse_open(p)
      [] char = "]" -> parse_close(p)
      [] char = "#" ->
            IF ~pp
            THEN [p EXCEPT !.tokens = push_token(p.tokens, p.next_token),
                           !.next_token = NoToken]
            ELSE [p EXCEPT !.tokens = Append(push_token(p.tokens, p.next_token),
                                             Tok("PrintState", 0)),
                           !.next_token = NoToken]
      [] OTHER -> p

\* One iteration of `for char in line.chars()`, on the parser's locals p.
parse_char(p, char, pp) ==
    CASE char \in {"+", "-"} -> parse_increment(p, char)
      [] char \in {">", "<"} -> parse_move(p, char)
      [] char = "." ->
            [p EXCEPT !.tokens = Append(push_token(p.tokens, p.next_token), Tok("Output", 0)),
                      !.next_token = NoToken]
      [] char = "," ->
            [p EXCEPT !.tokens = push_token(p.tokens, p.next_token),
                      !.next_token = Tok("Input", 0)]
      [] char = "[" -> parse_open(p)
      [] char = "]" -> parse_close(p)
      [] char = "#" ->
            IF ~pp THEN p
            ELSE [p EXCEPT !.tokens = Append(push_token(p.tokens, p.next_token),
                                             Tok("PrintState", 0)),
                           !.next_token = NoToken]
      [] OTHER -> p

\* `for char in line.chars()`; the `?` of the "]" arm returns at once.  The
\* iterations over the first half of the line, then those over the rest.
RECURSIVE parse_chars(_, _, _)
parse_chars(p, line, pp) ==
    IF line = <<>> \/ p.status # "Parsing" THEN p
    ELSE IF Len(line) = 1 THEN parse_char(p, line[1], pp)
    ELSE LET half == Len(line) \div 2
         IN  parse_chars(parse_chars(p, SubSeq(line, 1, half), pp),
                         SubSeq(line, half + 1, Len(line)), pp)

\* str::trim on the characters of Alphabet.
RECURSIVE trim_start(_)
trim_start(line) ==
    IF line # <<>> /\ Head(line) = " " THEN trim_start(Tail(line)) ELSE line

RECURSIVE trim_end(_)
trim_end(line) ==
    IF line # <<>> /\ line[Len(line)] = " "
    THEN trim_end(SubSeq(line, 1, Len(line) - 1))
    ELSE line

trim(line) == trim_end(trim_start(line))

\* declare_unit without `last.end = tokens.len()`.
declare_unit_open_ended(p, label) ==
    LET toks == push_token(p.tokens, p.next_token)
        u1 == IF p.units = <<>> /\ toks # <<>>
              THEN <<Unit(NoUnitName, 0, Len(toks))>>
              ELSE p.units
    IN  [p EXCEPT !.tokens = toks,
                  !.next_token = NoToken,
                  !.units = Append(u1, Unit(trim(label), Len(toks), 0))]

\* The body of `if let Some(line) = line.strip_prefix(";")`; label is the
\* stripped remainder.
declare_unit(p, label) ==
    LET toks == push_token(p.tokens, p.next_token)
        u1 == IF p.units = <<>> /\ toks # <<>>
              THEN <<Unit(NoUnitName, 0, Len(toks))>>
              ELSE p.units
        u2 == IF u1 # <<>> THEN [u1 EXCEPT ![Len(u1)].end = Len(toks)] ELSE u1
    IN  [p EXCEPT !.tokens = toks,
                  !.next_token = NoToken,
                  !.units = Append(u2, Unit(trim(label), Len(toks), 0))]

\* The body of `for line in input.lines()`.  The stripped `line` is bound
\* only inside the `if let`; the character loop runs over the trimmed line,
\* marker and label included.
parse_line(p, rawline, pp) ==
    LET line == trim(rawline)
        p1 == IF line # <<>> /\ Head(line) = ";" THEN declare_unit(p, Tail(line)) ELSE p
    IN  parse_chars(p1, line, pp)

\* end_tokens without the Eof.
end_tokens_unterminated(p) ==
    IF p.next_token.kind # "None" THEN Append(p.tokens, p.next_token) ELSE p.tokens

\* `if let Some(token) = next_token.take() { tokens.push(token) }` and
\* `tokens.push(Token::Eof)`: the last pending token is pushed as it is.
end_tokens(p) ==
    LET toks == IF p.next_token.kind # "None"
                THEN Append(p.tokens, p.next_token)
                ELSE p.tokens
    IN  Append(toks, Tok("Eof", 0))

\* parse_end without the check of jump_stack.
parse_end_unchecked(p) ==
    LET toks == end_tokens(p)
        u1 == IF p.units = <<>>
              THEN <<Unit(NoUnitInformation, 0, Len(toks))>>
              ELSE p.units
    IN  [p EXCEPT !.tokens = toks,
                  !.next_token = NoToken,
                  !.units = [u1 EXCEPT ![Len(u1)].end = Len(toks)],
                  !.status = "Ok"]

\* Program::parse after the line loop.
parse_end(p) ==
    LET toks == end_tokens(p)
    IN  IF p.jump_stack # <<>>
        THEN [p EXCEPT !.tokens = toks, !.next_token = NoToken, !.status = "MissingClose"]
        ELSE LET u1 == IF p.units = <<>>
                       THEN <<Unit(NoUnitInformation, 0, Len(toks))>>
                       ELSE p.units
             IN  [p EXCEPT !.tokens = toks,
                           !.next_token = NoToken,
                           !.units = [u1 EXCEPT ![Len(u1)].end = Len(toks)],
                           !.status = "Ok"]

\* The locals of Program::parse at its entry.
parse_begin ==
    [tokens |-> <<>>, next_token |-> NoToken, jump_stack |-> <<>>,
     units |-> <<>>, status |-> "Parsing"]

RECURSIVE parse_lines(_, _, _)
parse_lines(p, lines, pp) ==
    IF lines = <<>> \/ p.status # "Parsing" THEN p
    ELSE parse_lines(parse_line(p, Head(lines), pp), Tail(lines), pp)

\* Program::parse on a whole source text.
parse(lines, pp) ==
    LET p == parse_lines(parse_begin, lines, pp)
    IN  IF p.status = "Parsing" THEN parse_end(p) ELSE p

\* ------------------------------------------------------- parser, stepwise
Locals == [tokens |-> tokens, next_token |-> next_token, jump_stack |-> jump_stack,
           units |-> units, status |-> pstatus]

RECURSIVE SrcCost(_)
SrcCost(lines) ==
    IF lines = <<>> THEN 0 ELSE Len(Head(lines)) + 1 + SrcCost(Tail(lines))

LinesUpTo(n) == UNION {[1..k -> Alphabet] : k \in 0..n}

SetLocals(p) ==
    /\ tokens' = p.tokens
    /\ next_token' = p.next_token
    /\ jump_stack' = p.jump_stack
    /\ units' = p.units
    /\ pstatus' = p.status
    /\ program' = IF p.status = "Ok" THEN [units |-> p.units, tokens |-> p.tokens]
                  ELSE NoProgram

\* A method's return value.
Returned(method, ret) == [call |-> method, ret |-> ret]

NoResult == Returned("none", "None")

\* No Interpreter has been constructed.
NoEngine ==
    /\ tape = <<>>
    /\ pc = 0
    /\ ptr = 0
    /\ input = <<>>
    /\ eof_behaviour = "DontSet"
    /\ current_unit = 0
    /\ breakpoints = {}
    /\ output = <<>>
    /\ call = "none"
    /\ starting_unit = 0
    /\ step_ret = "None"
    /\ result = NoResult

\* No Debugger has been constructed.
NoDebugger ==
    /\ running = FALSE
    /\ dbg_input = <<>>
    /\ line_read = <<>>
    /\ dbg = "none"
    /\ printed = <<>>

InitParse ==
    /\ src = <<>>
    /\ parse_print \in BOOLEAN
    /\ tokens = <<>>
    /\ next_token = NoToken
    /\ jump_stack = <<>>
    /\ units = <<>>
    /\ pstatus = "Parsing"
    /\ program = NoProgram
    /\ NoEngine
    /\ NoDebugger

\* The reader yields one more line.
ParseLine ==
    /\ pstatus = "Parsing"
    /\ SrcCost(src) < MaxSrc
    /\ \E line \in LinesUpTo(MaxSrc - SrcCost(src) - 1) :
          /\ src' = Append(src, line)
          /\ SetLocals(parse_line(Locals, line, parse_print))
    /\ UNCHANGED parse_print
    /\ UNCHANGED engine_vars
    /\ UNCHANGED debugger_vars

\* The reader is exhausted.
ParseEnd ==
    /\ pstatus = "Parsing"
    /\ SetLocals(parse_end(Locals))
    /\ UNCHANGED <<src, parse_print>>
    /\ UNCHANGED engine_vars
    /\ UNCHANGED debugger_vars

\* The reader fails: `let line = line?`.
ParseIOError ==
    /\ pstatus = "Parsing"
    /\ pstatus' = "IOError"
    /\ program' = NoProgram
    /\ UNCHANGED <<src, parse_print, tokens, next_token, jump_stack, units>>
    /\ UNCHANGED engine_vars
    /\ UNCHANGED debugger_vars

NextParse == ParseLine \/ ParseEnd \/ ParseIOError

SpecParse == InitParse /\ [][NextParse]_vars

\* ------------------------------------------------------------ interpreter
\* Longest output kept; a step that would write past it is not taken.
MaxOutput == 6
\* Tape sizes 1..MaxTape are offered to Interpreter::new.
MaxTape == 4
\* Longest input stream offered to the interpreter.
MaxInput == 2
\* Most breakpoints set at once.
MaxBreakpoints == 1

\* An element of the input stream that makes Read::read return Err.
ReadErr == -1

\* b'\r'
CR == 13

\* `*value as usize`
as_usize(value) == IF value < 0 THEN value + UsizeMod ELSE value

\* usize::wrapping_add
wrapping_add_usize(a, b) == (a + b) % UsizeMod

\* What `print!("{}", byte as char)` writes: the UTF-8 encoding of the
\* code point U+0000..U+00FF.
print_char(byte) ==
    IF byte < 128 THEN <<byte>>
    ELSE <<192 + (byte \div 64), 128 + (byte % 64)>>

\* Read::read into the one-byte buffer: bytes is n for Ok(n), -1 for Err.
read(inp, buffer) ==
    IF inp = <<>> THEN [bytes |-> 0, buffer |-> buffer, input |-> inp]
    ELSE IF Head(inp) = ReadErr
         THEN [bytes |-> -1, buffer |-> buffer, input |-> Tail(inp)]
         ELSE [bytes |-> 1, buffer |-> Head(inp), input |-> Tail(inp)]

\* (unit.start..unit.end).contains(&i)
in_unit(unit, i) == unit.start <= i /\ i < unit.end

\* sync_unit without `self.current_unit %= self.program.units.len()`.
RECURSIVE sync_unit_no_wrap(_, _, _, _)
sync_unit_no_wrap(us, cu, i, turns) ==
    IF cu >= Len(us) THEN -1
    ELSE IF in_unit(us[cu + 1], i) THEN cu
    ELSE IF turns = 0 THEN -1
    ELSE sync_unit_no_wrap(us, cu + 1, i, turns - 1)

\* The `while` loop that ends Interpreter::step: the unit index it leaves,
\* or -1 when it has tried every unit and so never ends.
RECURSIVE sync_unit(_, _, _, _)
sync_unit(us, cu, i, turns) ==
    IF in_unit(us[cu + 1], i) THEN cu
    ELSE IF turns = 0 THEN -1
    ELSE sync_unit(us, (cu + 1) % Len(us), i, turns - 1)

\* The fields of the Interpreter that a step reads and writes.
Eng == [tape |-> tape, pc |-> pc, ptr |-> ptr, input |-> input,
        current_unit |-> current_unit, output |-> output]

Ret(e, r) == [eng |-> e, ret |-> r]

\* `self.pc += 1`, the unit loop and `Ok(true)`.
advance(prog, e) ==
    LET npc == e.pc + 1
        cu == sync_unit(prog.units, e.current_unit, npc, Len(prog.units))
    IN  IF cu = -1
        THEN Ret([e EXCEPT !.pc = npc], "Hang")
        ELSE Ret([e EXCEPT !.pc = npc, !.current_unit = cu], "OkTrue")

\* step_move with `>` for `>=` in the bounds check.
step_move_past_end(prog, e, value) ==
    LET np == wrapping_add_usize(e.ptr, as_usize(value))
    IN  IF np > Len(e.tape) THEN Ret(e, "TapeOverrun")
        ELSE advance(prog, [e EXCEPT !.ptr = np])

\* Token::Move in Interpreter::step.
step_move(prog, e, value) ==
    LET np == wrapping_add_usize(e.ptr, as_usize(value))
    IN  IF np >= Len(e.tape) THEN Ret(e, "TapeOverrun")
        ELSE advance(prog, [e EXCEPT !.ptr = np])

\* step_input with the byte stored before `bytes` is looked at.
step_input_store_first(prog, eof, e) ==
    LET r1 == read(e.input, 0)
        r2 == IF r1.buffer = CR THEN read(r1.input, r1.buffer) ELSE r1
        e1 == [e EXCEPT !.input = r2.input, !.tape[e.ptr + 1] = r2.buffer]
    IN  IF r2.bytes = 0
        THEN CASE eof = "SetZero" -> advance(prog, [e1 EXCEPT !.tape[e.ptr + 1] = 0])
               [] eof = "SetMinusOne" -> advance(prog, [e1 EXCEPT !.tape[e.ptr + 1] = 255])
               [] OTHER -> advance(prog, [e1 EXCEPT !.tape[e.ptr + 1] = e.tape[e.ptr + 1]])
        ELSE IF r2.bytes > 0
        THEN advance(prog, e1)
        ELSE Ret(e1, "InputError")

\* step_input skipping a second carriage return as it skips the first.
step_input_skip_again(prog, eof, e) ==
    LET r1 == read(e.input, 0)
        r2 == IF r1.buffer = CR THEN read(r1.input, r1.buffer) ELSE r1
        r3 == IF r1.buffer = CR /\ r2.bytes > 0 /\ r2.buffer = CR
              THEN read(r2.input, r2.buffer) ELSE r2
        e1 == [e EXCEPT !.input = r3.input]
    IN  IF r3.bytes = 0
        THEN CASE eof = "SetZero" -> advance(prog, [e1 EXCEPT !.tape[e.ptr + 1] = 0])
               [] eof = "SetMinusOne" -> advance(prog, [e1 EXCEPT !.tape[e.ptr + 1] = 255])
               [] OTHER -> advance(prog, e1)
        ELSE IF r3.bytes > 0
        THEN advance(prog, [e1 EXCEPT !.tape[e.ptr + 1] = r3.buffer])
        ELSE Ret(e1, "InputError")

\* step_input with end of input always storing 0.
step_input_eof_zero(prog, eof, e) ==
    LET r1 == read(e.input, 0)
        r2 == IF r1.buffer = CR THEN read(r1.input, r1.buffer) ELSE r1
        e1 == [e EXCEPT !.input = r2.input]
    IN  IF r2.bytes = 0
        THEN advance(prog, [e1 EXCEPT !.tape[e.ptr + 1] = 0])
        ELSE IF r2.bytes > 0
        THEN advance(prog, [e1 EXCEPT !.tape[e.ptr + 1] = r2.buffer])
        ELSE Ret(e1, "InputError")

\* Token::Input in Interpreter::step.
step_input(prog, eof, e) ==
    LET r1 == read(e.input, 0)
        r2 == IF r1.buffer = CR THEN read(r1.input, r1.buffer) ELSE r1
        e1 == [e EXCEPT !.input = r2.input]
    IN  IF r2.bytes = 0
        THEN CASE eof = "SetZero" -> advance(prog, [e1 EXCEPT !.tape[e.ptr + 1] = 0])
               [] eof = "SetMinusOne" -> advance(prog, [e1 EXCEPT !.tape[e.ptr + 1] = 255])
               [] OTHER -> advance(prog, e1)
        ELSE IF r2.bytes > 0
        THEN advance(prog, [e1 EXCEPT !.tape[e.ptr + 1] = r2.buffer])
        ELSE Ret(e1, "InputError")

\* step_jump_zero with `self.pc = *value`.
step_jump_zero_onto(prog, e, value) ==
    IF e.tape[e.ptr + 1] = 0
    THEN advance(prog, [e EXCEPT !.pc = value])
    ELSE advance(prog, e)

\* Token::JumpZero in Interpreter::step.
step_jump_zero(prog, e, value) ==
    IF e.tape[e.ptr + 1] = 0
    THEN IF value = 0 THEN Ret(e, "Panic")
         ELSE advance(prog, [e EXCEPT !.pc = value - 1])
    ELSE advance(prog, e)

\* step_jump_not_zero with `== 0` for `!= 0`.
step_jump_not_zero_on_zero(prog, e, value) ==
    IF e.tape[e.ptr + 1] = 0
    THEN IF value = 0 THEN Ret(e, "Panic")
         ELSE advance(prog, [e EXCEPT !.pc = value - 1])
    ELSE advance(prog, e)

\* Token::JumpNotZero in Interpreter::step.
step_jump_not_zero(prog, e, value) ==
    IF e.tape[e.ptr + 1] # 0
    THEN IF value = 0 THEN Ret(e, "Panic")
         ELSE advance(prog, [e EXCEPT !.pc = value - 1])
    ELSE advance(prog, e)

\* step_eof falling through to `self.pc += 1`.
step_eof_advancing(prog, e) == Ret([e EXCEPT !.pc = e.pc + 1], "OkFalse")

\* Token::Eof in Interpreter::step.
step_eof(prog, e) == Ret(e, "OkFalse")

\* Interpreter::step.  "Panic" is an index past the tape or `0 - 1` on a
\* usize (a debug build); "Hang" is the unit loop never ending.
step(prog, eof, e) ==
    IF e.pc >= Len(prog.tokens) THEN Ret(e, "InvalidProgram")
    ELSE
    LET tok == prog.tokens[e.pc + 1]
    IN  IF tok.kind \in {"Increment", "JumpZero", "JumpNotZero", "Output", "Input"}
           /\ e.ptr >= Len(e.tape)
        THEN Ret(e, "Panic")
        ELSE
        CASE tok.kind = "Increment" ->
                advance(prog, [e EXCEPT !.tape[e.ptr + 1] =
                                   wrapping_add_u8(e.tape[e.ptr + 1], tok.value)])
          [] tok.kind = "Move" -> step_move(prog, e, tok.value)
          [] tok.kind = "JumpZero" -> step_jump_zero(prog, e, tok.value)
          [] tok.kind = "JumpNotZero" -> step_jump_not_zero(prog, e, tok.value)
          [] tok.kind = "Output" ->
                advance(prog, [e EXCEPT !.output = e.output \o print_char(e.tape[e.ptr + 1])])
          [] tok.kind = "Input" -> step_input(prog, eof, e)
          [] tok.kind = "PrintState" -> advance(prog, e)
          [] OTHER -> step_eof(prog, e)

\* One turn of a loop over step(): returns is what the method returns on
\* this turn, "None" when the loop goes round again.
Turn(r, returns) == [eng |-> r.eng, step_ret |-> r.ret, returns |-> returns]

\* Interpreter::step_unit, one turn of its `while self.step()?`.
step_unit_turn(prog, eof, e, start_unit) ==
    LET r == step(prog, eof, e)
    IN  IF r.ret = "OkTrue"
        THEN IF r.eng.current_unit # start_unit THEN Turn(r, "OkTrue") ELSE Turn(r, "None")
        ELSE Turn(r, r.ret)

\* run_turn returning when the step has reached a breakpoint.
run_turn_pausing(prog, eof, e) ==
    LET r == step(prog, eof, e)
    IN  IF r.ret = "OkTrue"
        THEN IF r.eng.pc \in breakpoints THEN Turn(r, "Ok") ELSE Turn(r, "None")
        ELSE IF r.ret = "OkFalse" THEN Turn(r, "Ok")
        ELSE Turn(r, r.ret)

\* Interpreter::run, one turn of its `while self.step()? {}`.
run_turn(prog, eof, e) ==
    LET r == step(prog, eof, e)
    IN  IF r.ret = "OkTrue" THEN Turn(r, "None")
        ELSE IF r.ret = "OkFalse" THEN Turn(r, "Ok")
        ELSE Turn(r, r.ret)

\* cont_turn with the breakpoint set consulted before the step.
cont_turn_check_first(prog, eof, e, bps) ==
    IF e.pc \in bps THEN Turn(Ret(e, "OkTrue"), "OkTrue")
    ELSE LET r == step(prog, eof, e)
         IN  IF r.ret = "OkTrue" THEN Turn(r, "None") ELSE Turn(r, r.ret)

\* Interpreter::cont, one turn of its `while self.step()?`.
cont_turn(prog, eof, e, bps) ==
    LET r == step(prog, eof, e)
    IN  IF r.ret = "OkTrue"
        THEN IF r.eng.pc \in bps THEN Turn(r, "OkTrue") ELSE Turn(r, "None")
        ELSE Turn(r, r.ret)

\* ------------------------------------------------- interpreter, stepwise
\* Program files given to main, each with its --print-debug flag.
RunSources ==
    { [lines |-> <<>>, pp |-> FALSE],
      [lines |-> << <<"+","+","+","[","-",">","+","<","]">> >>, pp |-> FALSE],
      [lines |-> << <<"+","[","]">> >>, pp |-> FALSE],
      [lines |-> << <<";">>, <<";","+">> >>, pp |-> FALSE],
      [lines |-> << <<"+","+","[","-","]">>, <<";","u">>, <<".">> >>, pp |-> FALSE],
      [lines |-> << <<"+","+","[",">">>, <<";">>, <<"<","-","]">> >>, pp |-> FALSE],
      [lines |-> << <<"+">>, <<";">>, <<";">>, <<"[","-","]",".">> >>, pp |-> FALSE],
      [lines |-> << <<",">> >>, pp |-> FALSE],
      [lines |-> << <<"+",",",",">> >>, pp |-> FALSE],
      [lines |-> << <<">",",">> >>, pp |-> FALSE],
      [lines |-> << <<">",">","<","<","<">> >>, pp |-> FALSE],
      [lines |-> << <<">","+",">","<">> >>, pp |-> FALSE],
      [lines |-> << <<"+","[",">","+","]">> >>, pp |-> FALSE],
      [lines |-> << <<"-",".","+","-">> >>, pp |-> FALSE],
      [lines |-> << <<"+","#","+","#",".">> >>, pp |-> TRUE],
      [lines |-> << <<"+","+","[","-">>, <<";">>, <<";">>, <<"]">> >>, pp |-> FALSE],
      [lines |-> << <<"[","+","]">> >>, pp |-> FALSE] }

\* Bytes the input stream is made of, and the failing read.
InputItems == {ReadErr, CR, 65}

InputsUpTo(n) == UNION {[1..k -> InputItems] : k \in 0..n}

HasInput(prog) == \E i \in 1..Len(prog.tokens) : prog.tokens[i].kind = "Input"

HasMove(prog) == \E i \in 1..Len(prog.tokens) : prog.tokens[i].kind = "Move"

\* main: Program::parse, then Interpreter::new on the compiled program,
\* with a tape size, an input stream and an end-of-input policy drawn from
\* the given sets.
Construct(s, tape_sizes, inputs, policies) ==
    LET p == parse(s.lines, s.pp)
    IN  /\ p.status = "Ok"
        /\ src = s.lines
        /\ parse_print = s.pp
        /\ tokens = p.tokens
        /\ next_token = p.next_token
        /\ jump_stack = p.jump_stack
        /\ units = p.units
        /\ pstatus = p.status
        /\ program = [units |-> p.units, tokens |-> p.tokens]
        /\ \E tape_size \in tape_sizes : tape = [i \in 1..tape_size |-> 0]
        /\ pc = 0
        /\ ptr = 0
        /\ input \in inputs
        /\ eof_behaviour \in policies
        /\ breakpoints = {}
        /\ current_unit = 0
        /\ output = <<>>
        /\ call = "idle"
        /\ starting_unit = 0
        /\ step_ret = "None"
        /\ result = NoResult

\* Only Token::Move reads the tape's length and only Token::Input reads the
\* input stream and the end-of-input policy, so they vary for the programs
\* that hold one.
InitRun ==
    /\ NoDebugger
    /\ \E s \in RunSources :
        LET prog == parse(s.lines, s.pp)
        IN  Construct(s,
                      1..(IF HasMove(prog) THEN MaxTape ELSE 1),
                      InputsUpTo(IF HasInput(prog) THEN MaxInput ELSE 0),
                      IF HasInput(prog) THEN {"SetZero", "SetMinusOne", "DontSet"}
                      ELSE {"DontSet"})

SetEng(e) ==
    /\ tape' = e.tape
    /\ pc' = e.pc
    /\ ptr' = e.ptr
    /\ input' = e.input
    /\ current_unit' = e.current_unit
    /\ output' = e.output

\* The state after one turn t of the loop of `method`; a method that hangs
\* or panics never returns.
Turned(method, t) ==
    /\ Len(t.eng.output) <= MaxOutput
    /\ SetEng(t.eng)
    /\ step_ret' = t.step_ret
    /\ IF t.returns = "None" THEN call' = method /\ UNCHANGED result
       ELSE IF t.returns \in {"Hang", "Panic"} THEN call' = "dead" /\ UNCHANGED result
       ELSE call' = "idle" /\ result' = Returned(method, t.returns)
    /\ UNCHANGED <<eof_behaviour, breakpoints, starting_unit, program>>
    /\ UNCHANGED parser_vars

\* A turn of a loop that the program runs without a Debugger.
TakeTurn(method, t) ==
    /\ Turned(method, t)
    /\ UNCHANGED debugger_vars

\* A call of Interpreter::step.
CallStep ==
    /\ call = "idle"
    /\ LET r == step(program, eof_behaviour, Eng)
       IN  TakeTurn("step", Turn(r, r.ret))

\* Entry of Interpreter::step_unit.
CallStepUnit ==
    /\ call = "idle"
    /\ call' = "step_unit"
    /\ starting_unit' = current_unit
    /\ UNCHANGED <<tape, pc, ptr, input, eof_behaviour, current_unit, breakpoints,
                   output, step_ret, result, program>>
    /\ UNCHANGED parser_vars
    /\ UNCHANGED debugger_vars

StepUnitTurn ==
    /\ call = "step_unit"
    /\ TakeTurn("step_unit", step_unit_turn(program, eof_behaviour, Eng, starting_unit))

\* Entry of Interpreter::run.
CallRun ==
    /\ call = "idle"
    /\ call' = "run"
    /\ UNCHANGED <<tape, pc, ptr, input, eof_behaviour, current_unit, breakpoints,
                   output, starting_unit, step_ret, result, program>>
    /\ UNCHANGED parser_vars
    /\ UNCHANGED debugger_vars

RunTurn ==
    /\ call = "run"
    /\ TakeTurn("run", run_turn(program, eof_behaviour, Eng))

\* Entry of Interpreter::cont.
CallCont ==
    /\ call = "idle"
    /\ call' = "cont"
    /\ UNCHANGED <<tape, pc, ptr, input, eof_behaviour, current_unit, breakpoints,
                   output, starting_unit, step_ret, result, program>>
    /\ UNCHANGED parser_vars
    /\ UNCHANGED debugger_vars

ContTurn ==
    /\ call = "cont"
    /\ TakeTurn("cont", cont_turn(program, eof_behaviour, Eng, breakpoints))

\* Interpreter::add_breakpoint.
AddBreakpoint ==
    /\ call = "idle"
    /\ \E breakpoint \in 0..Len(program.tokens) :
          /\ Cardinality(breakpoints \cup {breakpoint}) <= MaxBreakpoints
          /\ breakpoints' = breakpoints \cup {breakpoint}
    /\ UNCHANGED <<tape, pc, ptr, input, eof_behaviour, current_unit,
                   output, call, starting_unit, step_ret, result, program>>
    /\ UNCHANGED parser_vars
    /\ UNCHANGED debugger_vars

\* Interpreter::clear_breakpoint; it returns whether the index was set.
ClearBreakpoint ==
    /\ call = "idle"
    /\ \E breakpoint \in 0..Len(program.tokens) :
          /\ breakpoints' = breakpoints \ {breakpoint}
          /\ result' = Returned("clear_breakpoint",
                                 IF breakpoint \in breakpoints THEN "true" ELSE "false")
    /\ UNCHANGED <<tape, pc, ptr, input, eof_behaviour, current_unit,
                   output, call, starting_unit, step_ret, program>>
    /\ UNCHANGED parser_vars
    /\ UNCHANGED debugger_vars

NextRun ==
    \/ CallStep
    \/ CallStepUnit
    \/ StepUnitTurn
    \/ CallRun
    \/ RunTurn
    \/ CallCont
    \/ ContTurn
    \/ AddBreakpoint
    \/ ClearBreakpoint

SpecRun == InitRun /\ [][NextRun]_vars

\* ------------------------------------------------ interpreter, two loops
\* Most leading '+' of the draining loop, next to the 255 a cell can hold.
MaxCount == 3

Counts == (0..MaxCount) \cup {255}

\* The program file "+...+[->+<]" with n leading '+'.
Drain(n) ==
    [lines |-> << [i \in 1..n |-> "+"] \o <<"[", "-", ">", "+", "<", "]">> >>,
     pp |-> FALSE]

\* The program file "+[]".
Spin == [lines |-> << <<"+", "[", "]">> >>, pp |-> FALSE]

\* main on a draining loop with a tape of 4 cells, or on "+[]" with a tape
\* of 2 cells; the input is empty.
InitLoops ==
    /\ NoDebugger
    /\ \/ \E n \in Counts : Construct(Drain(n), {4}, {<<>>}, {"DontSet"})
       \/ Construct(Spin, {2}, {<<>>}, {"DontSet"})

NextLoops ==
    \/ CallStep
    \/ CallStepUnit
    \/ StepUnitTurn
    \/ CallRun
    \/ RunTurn

\* A call of run or step_unit in progress goes on with its loop.
SpecLoops ==
    InitLoops /\ [][NextLoops]_vars /\ WF_vars(RunTurn) /\ WF_vars(StepUnitTurn)

\* ---------------------------------------------------------------- debugger
\* char::to_lowercase on the characters of the command lines.
lower(c) ==
    CASE c = "N" -> "n"
      [] c = "B" -> "b"
      [] c = "X" -> "x"
      [] OTHER -> c

\* str::to_lowercase
to_lowercase(str) == [i \in 1..Len(str) |-> lower(str[i])]

\* str::split_whitespace, collected; `word` is the word being read.
RECURSIVE split_words(_, _)
split_words(str, word) ==
    IF str = <<>> THEN (IF word = <<>> THEN <<>> ELSE <<word>>)
    ELSE IF Head(str) = " "
         THEN (IF word = <<>> THEN <<>> ELSE <<word>>) \o split_words(Tail(str), <<>>)
         ELSE split_words(Tail(str), Append(word, Head(str)))

split_whitespace(str) == split_words(str, <<>>)

\* str::trim_start_matches("0x")
RECURSIVE trim_start_matches_0x(_)
trim_start_matches_0x(str) ==
    IF Len(str) >= 2 /\ str[1] = "0" /\ str[2] = "x"
    THEN trim_start_matches_0x(SubSeq(str, 3, Len(str)))
    ELSE str

\* The digits of radix 16 in lower case, the digit of value v at v + 1.
HexDigits == <<"0", "1", "2", "3", "4", "5", "6", "7", "8", "9",
               "a", "b", "c", "d", "e", "f">>

\* char::to_digit(16): the value, -1 for None.
to_digit(c) ==
    IF \E v \in 1..16 : HexDigits[v] = lower(c)
    THEN (CHOOSE v \in 1..16 : HexDigits[v] = lower(c)) - 1
    ELSE -1

\* The digits of usize::from_str_radix(_, 16) folded from the left onto acc:
\* the value, -1 for Err (a character that is no digit, or overflow).
RECURSIVE parse_digits(_, _)
parse_digits(str, acc) ==
    IF str = <<>> THEN acc
    ELSE IF to_digit(Head(str)) = -1 THEN -1
    ELSE IF acc * 16 + to_digit(Head(str)) >= UsizeMod THEN -1
    ELSE parse_digits(Tail(str), acc * 16 + to_digit(Head(str)))

\* usize::from_str_radix(str, 16): the value, -1 for Err.  One leading '+'
\* is accepted; the empty string and a lone sign are errors.
from_str_radix(str) ==
    LET digits == IF str # <<>> /\ Head(str) = "+" THEN Tail(str) ELSE str
    IN  IF digits = <<>> THEN -1 ELSE parse_digits(digits, 0)

\* `l.split_whitespace().nth(1)` parsed as the commands break and clear
\* parse it: the index, -1 when there is none or it is no number.
breakpoint_arg(l) ==
    LET words == split_whitespace(l)
    IN  IF Len(words) < 2 THEN -1
        ELSE from_str_radix(trim_start_matches_0x(words[2]))

\* ------------------------------------------------------ debugger, stepwise
\* Program files given to main with --debugger.
DebugSources ==
    { [lines |-> << <<"+">>, <<";", "u">>, <<"-", "<">> >>, pp |-> FALSE],
      [lines |-> << <<"+", "+">> >>, pp |-> FALSE],
      [lines |-> << <<"+", "[", "]">> >>, pp |-> FALSE] }

\* Lines typed at the prompt, without their line end.
DebugLines ==
    { <<>>, <<" ">>, <<"n">>, <<" ", "N">>, <<"n", "i">>, <<"c">>,
      <<"b", " ", "0", "x", "1">>, <<"b">>, <<"c", "l", " ", "1">>,
      <<"x">>, <<"q">>, <<"t">> }

\* main with --debugger: Debugger::new, and Debugger::run up to its loop.
InitDebug ==
    /\ \E s \in DebugSources : Construct(s, {1}, {<<>>}, {"DontSet"})
    /\ running = TRUE
    /\ dbg_input = <<>>
    /\ line_read = <<>>
    /\ dbg = "prompt"
    /\ printed = <<"Welcome to the Brainstorm debugger", "context">>

\* A command that prints and returns false.
Report(messages) ==
    /\ printed' = messages
    /\ dbg' = "prompt"
    /\ UNCHANGED running
    /\ UNCHANGED <<engine_vars, program>>
    /\ UNCHANGED parser_vars

\* Observe with `running` left as it is when the Interpreter returns an Err.
Observe_error_keeps_running(returned) ==
    IF returned = "None" THEN UNCHANGED <<running, dbg, printed>>
    ELSE IF returned \in {"Hang", "Panic"}
    THEN dbg' = "dead" /\ UNCHANGED <<running, printed>>
    ELSE /\ dbg' = "prompt"
         /\ running' = IF returned = "OkFalse" THEN FALSE ELSE running
         /\ printed' =
               CASE returned = "OkTrue" -> <<"context">>
                 [] returned = "OkFalse" -> <<"Program has halted", "context">>
                 [] OTHER -> <<"Program has halted with an error:", returned, "context">>

\* What Debugger::n, ni and cont make of the value the Interpreter returned,
\* and the context the loop prints after them; "None" while the
\* Interpreter's loop goes on.
Observe(returned) ==
    IF returned = "None" THEN UNCHANGED <<running, dbg, printed>>
    ELSE IF returned \in {"Hang", "Panic"}
    THEN dbg' = "dead" /\ UNCHANGED <<running, printed>>
    ELSE /\ dbg' = "prompt"
         /\ running' = IF returned = "OkTrue" THEN running ELSE FALSE
         /\ printed' =
               CASE returned = "OkTrue" -> <<"context">>
                 [] returned = "OkFalse" -> <<"Program has halted", "context">>
                 [] OTHER -> <<"Program has halted with an error:", returned, "context">>

\* Debugger::n up to its call of Interpreter::step_unit.
Debugger_n ==
    IF ~running THEN Report(<<"Program is halted">>)
    ELSE /\ call' = "step_unit"
         /\ starting_unit' = current_unit
         /\ dbg' = "n"
         /\ printed' = <<>>
         /\ UNCHANGED <<tape, pc, ptr, input, eof_behaviour, current_unit, breakpoints,
                        output, step_ret, result, program, running>>
         /\ UNCHANGED parser_vars

\* Debugger::ni.
Debugger_ni ==
    IF ~running THEN Report(<<"Program is halted">>)
    ELSE LET r == step(program, eof_behaviour, Eng)
         IN  /\ Turned("step", Turn(r, r.ret))
             /\ Observe(r.ret)

\* Debugger::cont up to its call of Interpreter::cont.
Debugger_cont ==
    IF ~running THEN Report(<<"Program is halted">>)
    ELSE /\ call' = "cont"
         /\ dbg' = "c"
         /\ printed' = <<>>
         /\ UNCHANGED <<tape, pc, ptr, input, eof_behaviour, current_unit, breakpoints,
                        output, starting_unit, step_ret, result, program, running>>
         /\ UNCHANGED parser_vars

\* Debugger::breakpoint.
Debugger_breakpoint(l) ==
    LET v == breakpoint_arg(l)
    IN  /\ breakpoints' = IF v >= 0 THEN breakpoints \cup {v} ELSE breakpoints
        /\ printed' = IF v >= 0 THEN <<"Added breakpoint at", v>>
                      ELSE <<"Invalid breakpoint">>
        /\ dbg' = "prompt"
        /\ UNCHANGED <<tape, pc, ptr, input, eof_behaviour, current_unit,
                       output, call, starting_unit, step_ret, result, program, running>>
        /\ UNCHANGED parser_vars

\* Debugger::clear.
Debugger_clear(l) ==
    LET v == breakpoint_arg(l)
    IN  /\ breakpoints' = IF v >= 0 THEN breakpoints \ {v} ELSE breakpoints
        /\ result' = IF v >= 0
                     THEN Returned("clear_breakpoint",
                                   IF v \in breakpoints THEN "true" ELSE "false")
                     ELSE result
        /\ printed' = IF v < 0 THEN <<"Invalid breakpoint">>
                      ELSE IF v \in breakpoints THEN <<"Cleared breakpoint at", v>>
                      ELSE <<"No breakpoint at", v>>
        /\ dbg' = "prompt"
        /\ UNCHANGED <<tape, pc, ptr, input, eof_behaviour, current_unit,
                       output, call, starting_unit, step_ret, program, running>>
        /\ UNCHANGED parser_vars

\* `l.split_whitespace().next().unwrap()` on a line with no word.
Debugger_unwrap_none ==
    /\ dbg' = "panic"
    /\ printed' = <<>>
    /\ UNCHANGED running
    /\ UNCHANGED <<engine_vars, program>>
    /\ UNCHANGED parser_vars

\* The `match` of Debugger::run on the first word of l.
Debugger_match(word, l) ==
    CASE word \in {<<"h">>, <<"h", "e", "l", "p">>} -> Report(<<"help">>)
      [] word \in {<<"q">>, <<"q", "u", "i", "t">>} ->
            /\ printed' = <<"Exiting debugger!">>
            /\ dbg' = "quit"
            /\ UNCHANGED running
            /\ UNCHANGED <<engine_vars, program>>
            /\ UNCHANGED parser_vars
      [] word \in {<<"c", "t", "x">>, <<"c", "o", "n", "t", "e", "x", "t">>} ->
            Report(<<"context">>)
      [] word \in {<<"p">>, <<"p", "r", "o", "g", "r", "a", "m">>} -> Report(<<"program">>)
      [] word \in {<<"t">>, <<"t", "a", "p", "e">>} -> Report(<<"tape">>)
      [] word \in {<<"n">>, <<"n", "e", "x", "t">>} -> Debugger_n
      [] word \in {<<"n", "i">>,
                   <<"n", "e", "x", "t", "-", "i", "n", "s", "t", "r", "u", "c", "t", "i", "o", "n">>} ->
            Debugger_ni
      [] word \in {<<"b">>, <<"b", "r", "e", "a", "k">>} -> Debugger_breakpoint(l)
      [] word \in {<<"c", "l">>, <<"c", "l", "e", "a", "r">>} -> Debugger_clear(l)
      [] word \in {<<"c">>, <<"c", "o", "n", "t", "i", "n", "u", "e">>} -> Debugger_cont
      [] OTHER -> Report(<<"Unknown command:", l>>)

\* One turn of the loop of Debugger::run, up to the return of the command
\* or to its call of Interpreter::step_unit or Interpreter::cont.
Debugger_run ==
    /\ dbg = "prompt"
    /\ \E line \in DebugLines :
          LET last_command == dbg_input
              typed == to_lowercase(trim(line))
              new_input == IF typed = <<>> THEN last_command ELSE typed
              l == to_lowercase(trim(new_input))
              words == split_whitespace(l)
          IN  /\ line_read' = line
              /\ dbg_input' = new_input
              /\ IF words = <<>> THEN Debugger_unwrap_none
                 ELSE Debugger_match(words[1], l)

\* A turn of the loop of Interpreter::step_unit called by Debugger::n, and
\* the rest of Debugger::n when it returns.
Debugger_n_turn ==
    /\ dbg = "n"
    /\ call = "step_unit"
    /\ LET t == step_unit_turn(program, eof_behaviour, Eng, starting_unit)
       IN  /\ Turned("step_unit", t)
           /\ Observe(t.returns)
    /\ UNCHANGED <<dbg_input, line_read>>

\* A turn of the loop of Interpreter::cont called by Debugger::cont, and the
\* rest of Debugger::cont when it returns.
Debugger_cont_turn ==
    /\ dbg = "c"
    /\ call = "cont"
    /\ LET t == cont_turn(program, eof_behaviour, Eng, breakpoints)
       IN  /\ Turned("cont", t)
           /\ Observe(t.returns)
    /\ UNCHANGED <<dbg_input, line_read>>

NextDebug ==
    \/ Debugger_run
    \/ Debugger_n_turn
    \/ Debugger_cont_turn

SpecDebug == InitDebug /\ [][NextDebug]_vars

\* ============================================================== claims
\* ---------------------------------------------------------------- parser
\* Brackets opened minus brackets closed among stream indices a..b.
Balance(toks, a, b) ==
    Cardinality({i \in a..b : toks[i + 1].kind = "JumpZero"})
    - Cardinality({i \in a..b : toks[i + 1].kind = "JumpNotZero"})

\* The JumpNotZero at index q closes the JumpZero at index p.
Matches(toks, p, q) ==
    /\ p < q
    /\ toks[p + 1].kind = "JumpZero"
    /\ toks[q + 1].kind = "JumpNotZero"
    /\ Balance(toks, p, q) = 0
    /\ \A r \in p..(q - 1) : Balance(toks, p, r) > 0

\* C1: in every compiled program each JumpZero at index p holds q + 1, q the
\* index of the JumpNotZero that closes it, and that JumpNotZero holds
\* p + 1; every JumpNotZero closes a JumpZero, so the pairs are nested.
C1_BracketPairing ==
    pstatus = "Ok" =>
        LET toks == program.tokens
            last == Len(toks) - 1
        IN  \A i \in 0..last :
                /\ toks[i + 1].kind = "JumpZero" =>
                      \E q \in (i + 1)..last :
                          /\ Matches(toks, i, q)
                          /\ toks[i + 1].value = q + 1
                          /\ toks[q + 1].value = i + 1
                /\ toks[i + 1].kind = "JumpNotZero" =>
                      \E p \in 0..(i - 1) : Matches(toks, p, i)

\* A compiled program with a loop inside a loop.
C1_NestedLoops ==
    /\ pstatus = "Ok"
    /\ \E p, q \in 1..Len(program.tokens) :
          /\ p < q
          /\ program.tokens[p].kind = "JumpZero"
          /\ program.tokens[q].kind = "JumpZero"
          /\ program.tokens[p].value > program.tokens[q].value

\* The first character of the line that is not a blank is the unit marker.
IsUnitLine(line) ==
    \E i \in 1..Len(line) : line[i] = ";" /\ \A j \in 1..(i - 1) : line[j] = " "

\* The characters of the source in reading order, "unit" put where a unit
\* line begins.
RECURSIVE SourceChars(_)
SourceChars(lines) ==
    IF lines = <<>> THEN <<>>
    ELSE (IF IsUnitLine(Head(lines)) THEN <<"unit">> ELSE <<>>)
         \o Head(lines) \o SourceChars(Tail(lines))

\* The net counts (one per `up`, minus one per `down`) of the maximal runs
\* of up/down characters; a run ends at a character of `stops`, any other
\* character is passed over.
RECURSIVE RunNets(_, _, _, _, _, _)
RunNets(chars, up, down, stops, net, inrun) ==
    IF chars = <<>> THEN (IF inrun THEN <<net>> ELSE <<>>)
    ELSE IF Head(chars) = up THEN RunNets(Tail(chars), up, down, stops, net + 1, TRUE)
    ELSE IF Head(chars) = down THEN RunNets(Tail(chars), up, down, stops, net - 1, TRUE)
    ELSE IF Head(chars) \in stops
         THEN (IF inrun THEN <<net>> ELSE <<>>)
              \o RunNets(Tail(chars), up, down, stops, 0, FALSE)
    ELSE RunNets(Tail(chars), up, down, stops, net, inrun)

\* The characters that emit a token of their own.
Emitters(pp) == {".", ",", "[", "]", "unit"} \cup (IF pp THEN {"#"} ELSE {})

\* The values of the tokens of one kind, in stream order.
ValuesOf(toks, kind) ==
    LET sel == SelectSeq(toks, LAMBDA t : t.kind = kind)
    IN  [i \in 1..Len(sel) |-> sel[i].value]

\* C3: the Increment tokens of a compiled program are exactly, in order, the
\* values k mod 256 of the runs of '+'/'-' whose net count k is not 0 mod
\* 256; a run of net count 0 mod 256 emits nothing.
C3_IncrementFolding ==
    pstatus = "Ok" =>
        LET nets == RunNets(SourceChars(src), "+", "-",
                            Emitters(parse_print) \cup {">", "<"}, 0, FALSE)
            kept == SelectSeq(nets, LAMBDA k : k % 256 # 0)
        IN  ValuesOf(program.tokens, "Increment") = [i \in 1..Len(kept) |-> kept[i] % 256]

\* C4: the Move tokens of a compiled program are exactly, in order, the net
\* offsets of the runs of '>'/'<' whose net offset is not 0; a run of net
\* offset 0 emits nothing.
C4_MoveFolding ==
    pstatus = "Ok" =>
        LET nets == RunNets(SourceChars(src), ">", "<",
                            Emitters(parse_print) \cup {"+", "-"}, 0, FALSE)
        IN  ValuesOf(program.tokens, "Move") = SelectSeq(nets, LAMBDA k : k # 0)

\* C5: the units of a compiled program partition [0, stream length): there
\* is one, the first starts at 0, each ends where the next starts, none
\* ends before it starts, the last ends at the stream length.
C5_UnitsPartition ==
    pstatus = "Ok" =>
        LET us == program.units
        IN  /\ Len(us) >= 1
            /\ us[1].start = 0
            /\ \A i \in 1..(Len(us) - 1) : us[i].end = us[i + 1].start
            /\ \A i \in 1..Len(us) : us[i].start <= us[i].end
            /\ us[Len(us)].end = Len(program.tokens)

\* A compiled program with two declared units, one of them empty.
C5_EmptyUnit ==
    /\ pstatus = "Ok"
    /\ Len(program.units) >= 2
    /\ \E i \in 1..Len(program.units) : program.units[i].start = program.units[i].end

RECURSIVE Flat(_)
Flat(lines) == IF lines = <<>> THEN <<>> ELSE Head(lines) \o Flat(Tail(lines))

\* Occurrences of c among the first n characters.
Count(chars, c, n) == Cardinality({j \in 1..n : chars[j] = c})

\* How compilation ends, read off the brackets of the source text.
BracketOutcome(chars) ==
    IF \E i \in 1..Len(chars) :
          chars[i] = "]" /\ Count(chars, "]", i) > Count(chars, "[", i)
    THEN "MissingOpen"
    ELSE IF Count(chars, "[", Len(chars)) > Count(chars, "]", Len(chars))
    THEN "MissingClose"
    ELSE "Ok"

\* C6: unless the reader fails, compilation ends with MissingOpen exactly
\* when some ']' comes with no '[' pending, else with MissingClose exactly
\* when a '[' is pending at the end, else it succeeds; no Program is
\* returned with an error.
C6_BracketErrors ==
    pstatus \in {"Ok", "MissingOpen", "MissingClose"} =>
        /\ pstatus = BracketOutcome(Flat(src))
        /\ pstatus # "Ok" => program = NoProgram

\* compile("[") has failed with MissingClose.
C6_LoneOpen ==
    /\ pstatus = "MissingClose"
    /\ src = << <<"[">> >>

\* C7: a compiled stream holds one Eof, at its last index; every jump
\* target is an index of the stream; the empty source gives the stream
\* [Eof] and the one unit [0, 1).
C7_EofAndTargets ==
    pstatus = "Ok" =>
        LET toks == program.tokens
        IN  /\ Len(toks) >= 1
            /\ \A i \in 1..Len(toks) : (toks[i].kind = "Eof") <=> (i = Len(toks))
            /\ \A i \in 1..Len(toks) :
                  toks[i].kind \in {"JumpZero", "JumpNotZero"} =>
                      toks[i].value \in 0..(Len(toks) - 1)
            /\ src = <<>> =>
                  /\ toks = <<Tok("Eof", 0)>>
                  /\ program.units = <<Unit(NoUnitInformation, 0, 1)>>

\* The empty source has compiled.
C7_EmptySource ==
    /\ pstatus = "Ok"
    /\ src = <<>>

\* ----------------------------------------------------------- interpreter
\* A transition that executes Interpreter::step once.
Stepping == CallStep \/ StepUnitTurn \/ RunTurn \/ ContTurn

\* The next step executes a token of this kind.
AtToken(kind) ==
    /\ pc < Len(program.tokens)
    /\ program.tokens[pc + 1].kind = kind

\* C2: a step on Move(d) with the pointer at p on a tape of L cells moves
\* the pointer to p + d and succeeds when 0 <= p + d < L, and otherwise
\* fails with TapeOverrun (so every nonzero Move fails when L = 1); the
\* pointer is always an index of the tape.
C2_MoveBounds ==
    /\ [](ptr < Len(tape))
    /\ [][(Stepping /\ AtToken("Move")) =>
            LET d == program.tokens[pc + 1].value
            IN  IF 0 <= ptr + d /\ ptr + d < Len(tape)
                THEN ptr' = ptr + d /\ step_ret' = "OkTrue"
                ELSE /\ ptr' = ptr
                     /\ step_ret' = "TapeOverrun"
                     /\ call' = "idle"
                     /\ result'.ret = "TapeOverrun"]_vars

\* A Move below index 0 has failed with TapeOverrun.
C2_LeftOverrun ==
    /\ step_ret = "TapeOverrun"
    /\ AtToken("Move")
    /\ ptr + program.tokens[pc + 1].value < 0

\* The units whose range holds index i.
UnitsHolding(i) == {u \in 1..Len(program.units) : in_unit(program.units[u], i)}

\* C8: a turn of step_unit returns Ok(true) only if its step took the
\* program counter out of the unit that held it, goes round again only if
\* the step kept it there (so that unit is the one of call entry), and
\* returns Ok(false) only on Eof.
C8_StepUnitReportsLeaving ==
    [][StepUnitTurn =>
        /\ (call' = "idle" /\ result'.ret = "OkTrue") =>
              \A u \in UnitsHolding(pc) : ~in_unit(program.units[u], pc')
        /\ call' = "step_unit" =>
              \A u \in UnitsHolding(pc) : in_unit(program.units[u], pc')
        /\ (call' = "idle" /\ result'.ret = "OkFalse") => AtToken("Eof")]_vars

\* C9: every turn of cont executes one step, whatever the breakpoints; it
\* returns Ok(true) exactly when that step succeeded and left the program
\* counter on a breakpoint, goes round again exactly when it succeeded and
\* left it elsewhere, and returns Ok(false) exactly when it executed Eof.
C9_ContPausesAtBreakpoints ==
    [][ContTurn =>
        LET r == step(program, eof_behaviour, Eng)
        IN  /\ Eng' = r.eng
            /\ step_ret' = r.ret
            /\ (call' = "idle" /\ result' = Returned("cont", "OkTrue"))
                  <=> (r.ret = "OkTrue" /\ pc' \in breakpoints)
            /\ (call' = "cont")
                  <=> (r.ret = "OkTrue" /\ pc' \notin breakpoints)
            /\ (call' = "idle" /\ result' = Returned("cont", "OkFalse"))
                  <=> AtToken("Eof")]_vars

\* cont has returned Ok(true) on a breakpoint.
C9_Paused ==
    /\ call = "idle"
    /\ result = Returned("cont", "OkTrue")
    /\ pc \in breakpoints

\* C10: a step on Input with the input stream exhausted sets the current
\* cell to 0 under SetZero, to 255 under SetMinusOne and leaves it under
\* DontSet, changes no other cell nor the pointer, succeeds and advances
\* the program counter by 1.
C10_InputAtEof ==
    [][(Stepping /\ AtToken("Input") /\ input = <<>>) =>
        /\ tape' = [tape EXCEPT ![ptr + 1] =
                       CASE eof_behaviour = "SetZero" -> 0
                         [] eof_behaviour = "SetMinusOne" -> 255
                         [] OTHER -> @]
        /\ ptr' = ptr
        /\ pc' = pc + 1
        /\ step_ret' = "OkTrue"
        /\ input' = <<>>]_vars

\* Under DontSet an Input at end of input has left a cell holding 1 as it was.
C10_CellKept ==
    /\ eof_behaviour = "DontSet"
    /\ input = <<>>
    /\ step_ret = "OkTrue"
    /\ pc >= 1
    /\ program.tokens[(pc - 1) + 1].kind = "Input"
    /\ tape[ptr + 1] = 1

\* ------------------------------------------------- parser, unit lines, '#'
\* A unit line with its label text removed; any other line as it is.
StripLabel(line) == IF IsUnitLine(line) THEN <<";">> ELSE line

StripLabels(lines) == [i \in 1..Len(lines) |-> StripLabel(lines[i])]

\* C11: a unit line adds no instruction: a source that compiles gives the
\* instruction stream of the same source with the label text of every unit
\* line removed.
C11_UnitLineAddsNothing ==
    pstatus = "Ok" =>
        LET q == parse(StripLabels(src), parse_print)
        IN  /\ q.status = "Ok"
            /\ q.tokens = program.tokens

\* The line with every '#' deleted.
NoHash(line) == SelectSeq(line, LAMBDA c : c # "#")

NoHashes(lines) == [i \in 1..Len(lines) |-> NoHash(lines[i])]

\* The characters the character loop has an arm for.
Instructions == {"+", "-", ">", "<", ".", ",", "[", "]", "#"}

PrintStates(toks) == Len(SelectSeq(toks, LAMBDA t : t.kind = "PrintState"))

\* A transition of ParseLine: the only one that lengthens src.
LineRead == Len(src') = Len(src) + 1

\* With parse_print true a line that is no unit line and is read to its
\* end adds one PrintState for each of its '#', and a '#' that no
\* instruction follows leaves no run pending behind its PrintState.
HashEmitsPrintState ==
    [][(LineRead /\ parse_print /\ pstatus' = "Parsing"
           /\ ~IsUnitLine(src'[Len(src')])) =>
          LET line == src'[Len(src')]
              ins == SelectSeq(line, LAMBDA c : c \in Instructions)
          IN  /\ PrintStates(tokens') =
                    PrintStates(tokens) + Len(SelectSeq(line, LAMBDA c : c = "#"))
              /\ (ins # <<>> /\ ins[Len(ins)] = "#") =>
                    /\ next_token' = NoToken
                    /\ tokens'[Len(tokens')] = Tok("PrintState", 0)]_vars

\* C12 as stated: with parse_print false a source that compiles gives the
\* instruction stream and the unit table of the same source with every '#'
\* deleted; with parse_print true each '#' outside a unit line emits one
\* PrintState and ends the run being folded.
C12_HashDeleted ==
    /\ [](pstatus = "Ok" /\ ~parse_print =>
            LET q == parse(NoHashes(src), FALSE)
            IN  /\ q.status = "Ok"
                /\ q.tokens = program.tokens
                /\ q.units = program.units)
    /\ HashEmitsPrintState

\* Deleting the '#' turns no line into a unit line.
KeepsUnitLines(lines) ==
    \A i \in 1..Len(lines) : IsUnitLine(NoHash(lines[i])) => IsUnitLine(lines[i])

\* C12 amended: with parse_print false, a source in which no '#' stands
\* before the marker of a line gives the instruction stream and the unit
\* ranges of the same source with every '#' deleted, and its labels with
\* their '#' deleted; with parse_print true as stated.
C12_HashOutsideMarkers ==
    /\ [](pstatus = "Ok" /\ ~parse_print /\ KeepsUnitLines(src) =>
            LET q == parse(NoHashes(src), FALSE)
            IN  /\ q.status = "Ok"
                /\ q.tokens = program.tokens
                /\ Len(q.units) = Len(program.units)
                /\ \A i \in 1..Len(q.units) :
                      /\ q.units[i].start = program.units[i].start
                      /\ q.units[i].end = program.units[i].end
                      /\ q.units[i].description =
                            trim(NoHash(program.units[i].description)))
    /\ HashEmitsPrintState

\* "+#+" has compiled with parse_print false, to one Increment(2).
C12_FoldedAcrossHash ==
    /\ pstatus = "Ok"
    /\ ~parse_print
    /\ src = << <<"+", "#", "+">> >>
    /\ program.tokens = <<Tok("Increment", 2), Tok("Eof", 0)>>

\* ------------------------------------------------- interpreter, continued
\* C13: a step on Output appends one byte to the output, the value of the
\* current cell, whatever that value in 0..255, changes neither the tape
\* nor the pointer, and succeeds.
C13_OutputOneByte ==
    [][(Stepping /\ AtToken("Output")) =>
        /\ output' = Append(output, tape[ptr + 1])
        /\ tape' = tape
        /\ ptr' = ptr
        /\ step_ret' = "OkTrue"]_vars

\* C14: what a call of step, step_unit or run does to the engine and what
\* it returns is a function of the engine without its breakpoint set, so
\* two engines that differ in that set only stay in step; add_breakpoint
\* and clear_breakpoint change the breakpoint set only, by one index at
\* most, and clear_breakpoint returns true exactly when it removed one.
C14_BreakpointsIgnored ==
    [][LET r == step(program, eof_behaviour, Eng)
       IN  /\ (CallStep \/ StepUnitTurn \/ RunTurn) =>
                 /\ Eng' = r.eng
                 /\ step_ret' = r.ret
                 /\ breakpoints' = breakpoints
           /\ CallStep =>
                 \/ call' = "idle" /\ result' = Returned("step", r.ret)
                 \/ call' = "dead" /\ r.ret \in {"Hang", "Panic"}
           /\ StepUnitTurn =>
                 /\ (call' = "step_unit")
                       <=> (r.ret = "OkTrue" /\ current_unit' = starting_unit)
                 /\ (call' = "idle" /\ result' = Returned("step_unit", "OkTrue"))
                       <=> (r.ret = "OkTrue" /\ current_unit' # starting_unit)
                 /\ (call' = "idle" /\ result' = Returned("step_unit", "OkFalse"))
                       <=> (r.ret = "OkFalse")
           /\ RunTurn =>
                 /\ (call' = "run") <=> (r.ret = "OkTrue")
                 /\ (call' = "idle" /\ result' = Returned("run", "Ok"))
                       <=> (r.ret = "OkFalse")
           /\ (CallStepUnit \/ CallRun) =>
                 UNCHANGED <<tape, pc, ptr, input, current_unit, output, breakpoints>>
           /\ AddBreakpoint =>
                 /\ UNCHANGED <<tape, pc, ptr, input, current_unit, output, result>>
                 /\ breakpoints \subseteq breakpoints'
                 /\ Cardinality(breakpoints' \ breakpoints) <= 1
           /\ ClearBreakpoint =>
                 /\ UNCHANGED <<tape, pc, ptr, input, current_unit, output>>
                 /\ breakpoints' \subseteq breakpoints
                 /\ Cardinality(breakpoints \ breakpoints') <= 1
                 /\ result'.call = "clear_breakpoint"
                 /\ (result'.ret = "true") <=> (breakpoints' # breakpoints)]_vars

\* run has stepped onto a breakpoint and goes on.
C14_RunPassesBreakpoint ==
    /\ call = "run"
    /\ step_ret = "OkTrue"
    /\ pc \in breakpoints

\* ---------------------------------------------------------------- loops
Errors == {"TapeOverrun", "InputError", "InvalidProgram", "Hang", "Panic"}

\* The number of leading '+' of the draining loop that was compiled.
IsDrain(n) == src = Drain(n).lines

\* C15: on a tape of 4 cells and with no input, the draining loop with n
\* leading '+' (n = 3 among them) never fails a step, every call of run
\* returns Ok, and once run has returned the program counter is on Eof,
\* cell 0 holds 0, cell 1 holds n and cells 2 and 3 hold 0.
C15_DrainHalts ==
    /\ [](\A n \in Counts : IsDrain(n) =>
            /\ step_ret \notin Errors
            /\ call # "dead"
            /\ result = Returned("run", "Ok") =>
                  /\ AtToken("Eof")
                  /\ tape = <<0, n, 0, 0>>)
    /\ ((\E n \in Counts : IsDrain(n)) /\ call = "run")
          ~> (call = "idle" /\ result = Returned("run", "Ok"))

\* "+++[->+<]" has run to its end from the initial state.
C15_ThreeMoved ==
    /\ IsDrain(3)
    /\ result = Returned("run", "Ok")
    /\ step_ret = "OkFalse"
    /\ tape = <<0, 3, 0, 0>>

IsSpin == src = Spin.lines

\* The indices of the instructions of the loops of the program.
LoopIndices ==
    {i \in 0..(Len(program.tokens) - 1) :
        program.tokens[i + 1].kind \in {"JumpZero", "JumpNotZero"}}

\* C16: on "+[]" with a tape of 2 cells every step returns Ok(true) and
\* leaves the program counter on an instruction of the loop and the unit
\* index as it was; no step_unit and no run returns, Eof is never reached
\* and no error is produced.
C16_SpinNeverHalts ==
    /\ [](IsSpin =>
            /\ step_ret \in {"None", "OkTrue"}
            /\ call # "dead"
            /\ result.call \notin {"run", "step_unit"}
            /\ result.ret \in {"None", "OkTrue"}
            /\ current_unit = 0
            /\ ~AtToken("Eof"))
    /\ [][(IsSpin /\ Stepping) =>
            /\ step_ret' = "OkTrue"
            /\ pc' \in LoopIndices
            /\ current_unit' = current_unit]_vars

\* run is going round the loop of "+[]".
C16_Spinning ==
    /\ IsSpin
    /\ call = "run"
    /\ step_ret = "OkTrue"
    /\ pc \in LoopIndices
    /\ tape = <<1, 0>>

\* C17: a step that reaches the loop over the units comes out of it, and
\* leaves as current unit the one unit whose range holds the program
\* counter.
C17_UnitResync ==
    [][(Stepping /\ step_ret' \in {"OkTrue", "Hang"}) =>
        /\ step_ret' = "OkTrue"
        /\ UnitsHolding(pc') = {current_unit' + 1}]_vars

\* A JumpNotZero has jumped from the third unit back into the first, past
\* an empty unit.
C17_BackOverEmptyUnit ==
    /\ src = << <<"+", "+", "[", "-">>, <<";">>, <<";">>, <<"]">> >>
    /\ step_ret = "OkTrue"
    /\ pc = 2
    /\ tape = <<1>>
    /\ current_unit = 0
    /\ program.units[2].start = program.units[2].end

\* C18: in every state the program counter is an index of the instruction
\* stream, and no step has returned InvalidProgram.
C18_PcValid ==
    /\ pc < Len(program.tokens)
    /\ step_ret # "InvalidProgram"
    /\ result.ret # "InvalidProgram"

\* A step on the last instruction, the Eof, of a program that begins with
\* a loop has returned Ok(false).
C18_AtLastInstruction ==
    /\ pc = Len(program.tokens) - 1
    /\ pc >= 1
    /\ step_ret = "OkFalse"
    /\ program.tokens[1].kind = "JumpZero"

\* C19: a step that returns TapeOverrun or InputError leaves the program
\* counter (on the Move or the Input that failed), the pointer, the tape
\* and the unit index as they were, and the call of step, step_unit, cont
\* or run that made it returns that error at once.
C19_ErrorsKeepState ==
    [][(Stepping /\ step_ret' \in {"TapeOverrun", "InputError"}) =>
        /\ pc' = pc
        /\ ptr' = ptr
        /\ tape' = tape
        /\ current_unit' = current_unit
        /\ output' = output
        /\ AtToken(IF step_ret' = "TapeOverrun" THEN "Move" ELSE "Input")
        /\ call' = "idle"
        /\ result'.ret = step_ret']_vars

\* run has failed on the second Input of "+,,", the cell still holding
\* what the first Input stored.
C19_RunFailedOnInput ==
    /\ src = << <<"+", ",", ",">> >>
    /\ result = Returned("run", "InputError")
    /\ pc = 2
    /\ tape[1] = 65
    /\ input = <<>>

\* The JumpNotZero that closes the JumpZero at index p.
CloserOf(p) == CHOOSE q \in 0..(Len(program.tokens) - 1) : Matches(program.tokens, p, q)

\* The JumpZero that the JumpNotZero at index q closes.
OpenerOf(q) == CHOOSE p \in 0..(Len(program.tokens) - 1) : Matches(program.tokens, p, q)

\* C20: a step on the JumpZero at p, closed at q, leaves the program
\* counter at q + 1 when the current cell is 0 and at p + 1 otherwise; a
\* step on the JumpNotZero at q, opened at p, leaves it at p + 1 when the
\* cell is not 0 and at q + 1 otherwise; both leave tape and pointer as
\* they were and return Ok(true).
C20_JumpSemantics ==
    [][/\ (Stepping /\ AtToken("JumpZero")) =>
             /\ pc' = IF tape[ptr + 1] = 0 THEN CloserOf(pc) + 1 ELSE pc + 1
             /\ tape' = tape
             /\ ptr' = ptr
             /\ step_ret' = "OkTrue"
       /\ (Stepping /\ AtToken("JumpNotZero")) =>
             /\ pc' = IF tape[ptr + 1] # 0 THEN OpenerOf(pc) + 1 ELSE pc + 1
             /\ tape' = tape
             /\ ptr' = ptr
             /\ step_ret' = "OkTrue"]_vars

\* The JumpZero of "[+]" has been taken on a cell holding 0.
C20_LoopSkipped ==
    /\ src = << <<"[", "+", "]">> >>
    /\ pc = 3
    /\ step_ret = "OkTrue"
    /\ tape = <<0>>

\* C21: a step on Eof returns Ok(false) and leaves the program counter,
\* the pointer, the tape, the unit index, the breakpoints, the input and
\* the output as they were, and the call that made it returns halted; a
\* step has returned Ok(false) only on Eof, and once one has, every later
\* step returns Ok(false) too.
C21_EndChangesNothing ==
    /\ [](step_ret = "OkFalse" => AtToken("Eof"))
    /\ [][(Stepping /\ AtToken("Eof")) =>
            /\ step_ret' = "OkFalse"
            /\ UNCHANGED <<pc, ptr, tape, current_unit, breakpoints, input, output>>
            /\ call' = "idle"
            /\ result'.ret = IF result'.call = "run" THEN "Ok" ELSE "OkFalse"]_vars
    /\ [][step_ret = "OkFalse" => step_ret' = "OkFalse"]_vars

\* cont has returned Ok(false) from the Eof it had paused on, the tape
\* holding what the program wrote.
C21_HaltedOnBreakpoint ==
    /\ result = Returned("cont", "OkFalse")
    /\ step_ret = "OkFalse"
    /\ pc \in breakpoints
    /\ \E i \in 1..Len(tape) : tape[i] # 0

\* What the end-of-input policy makes of a cell.
AtEndOfInput(cell) ==
    CASE eof_behaviour = "SetZero" -> 0
      [] eof_behaviour = "SetMinusOne" -> 255
      [] OTHER -> cell

\* The outcome of an Input that finds `rest` in the input stream once a
\* first carriage return, if any, is discarded: what is left of the stream,
\* the current cell and what the step returns.
InputOutcome(rest, cell) ==
    IF rest = <<>>
    THEN [input |-> <<>>, cell |-> AtEndOfInput(cell), ret |-> "OkTrue"]
    ELSE IF Head(rest) = ReadErr
    THEN [input |-> Tail(rest), cell |-> cell, ret |-> "InputError"]
    ELSE [input |-> Tail(rest), cell |-> Head(rest), ret |-> "OkTrue"]

\* C22: a step on Input takes at most two items off the input stream; a
\* first byte that is not a carriage return is stored; a first carriage
\* return is discarded and one more read decides: its byte is stored, be it
\* a carriage return, the end of input applies the policy, and a failing
\* read, first or second, gives InputError; no other cell changes.
C22_InputCarriageReturn ==
    [][(Stepping /\ AtToken("Input")) =>
        LET rest == IF input # <<>> /\ Head(input) = CR THEN Tail(input) ELSE input
            o == InputOutcome(rest, tape[ptr + 1])
        IN  /\ input' = o.input
            /\ Len(input) - Len(input') <= 2
            /\ tape' = [tape EXCEPT ![ptr + 1] = o.cell]
            /\ step_ret' = o.ret
            /\ ptr' = ptr]_vars

\* An Input has discarded a carriage return and stored the one after it.
C22_SecondCrStored ==
    /\ step_ret = "OkTrue"
    /\ pc >= 1
    /\ program.tokens[(pc - 1) + 1].kind = "Input"
    /\ tape[ptr + 1] = CR
    /\ input = <<>>

\* ------------------------------------------------------------- debugger
\* The first word of the command that the turn of the loop executes.
Command == split_whitespace(to_lowercase(trim(dbg_input')))[1]

\* A turn of the loop of Debugger::run that has read a line and has found
\* a word in it.
Commanded == dbg = "prompt" /\ dbg' # "panic" /\ line_read' \in DebugLines

NextCommands == {<<"n">>, <<"n", "e", "x", "t">>}

ContinueCommands == {<<"c">>, <<"c", "o", "n", "t", "i", "n", "u", "e">>}

NextInstructionCommands ==
    {<<"n", "i">>,
     <<"n", "e", "x", "t", "-", "i", "n", "s", "t", "r", "u", "c", "t", "i", "o", "n">>}

SteppingCommands == NextCommands \cup ContinueCommands \cup NextInstructionCommands

\* C23: between commands `running` is false exactly when a step has
\* returned a halt or an error; from then on it stays false, every next,
\* next-instruction and continue is refused with "Program is halted" and
\* program counter, pointer, tape and the Interpreter's calls stay as they
\* are; while it is true each of these commands makes one call, of
\* step_unit, step or cont, and the prompt comes back when it returns.
C23_NoSteppingAfterHalt ==
    /\ [](dbg = "prompt" => (running <=> step_ret \in {"None", "OkTrue"}))
    /\ [][~running =>
            /\ ~running'
            /\ UNCHANGED <<pc, ptr, tape, current_unit, input, output, call, step_ret>>]_vars
    /\ [][(Commanded /\ Command \in SteppingCommands /\ ~running) =>
            /\ printed' = <<"Program is halted">>
            /\ dbg' = "prompt"]_vars
    /\ [][(Commanded /\ Command \in NextCommands /\ running) =>
            /\ call' = "step_unit" /\ dbg' = "n"
            /\ UNCHANGED <<pc, ptr, tape, step_ret, result>>]_vars
    /\ [][(Commanded /\ Command \in ContinueCommands /\ running) =>
            /\ call' = "cont" /\ dbg' = "c"
            /\ UNCHANGED <<pc, ptr, tape, step_ret, result>>]_vars
    /\ [][(Commanded /\ Command \in NextInstructionCommands /\ running) =>
            /\ Eng' = step(program, eof_behaviour, Eng).eng
            /\ result' = Returned("step", step_ret')
            /\ dbg' = "prompt"]_vars
    /\ [][(dbg \in {"n", "c"}) =>
            /\ Eng' = step(program, eof_behaviour, Eng).eng
            /\ (dbg' = dbg /\ call' = call /\ result' = result)
                  \/ (dbg' = "prompt" /\ call' = "idle" /\ result'.call = call)]_vars

\* A stepping command has been refused after a step failed with TapeOverrun.
C23_RefusedAfterError ==
    /\ ~running
    /\ step_ret = "TapeOverrun"
    /\ printed = <<"Program is halted">>
    /\ dbg = "prompt"

KnownCommands ==
    SteppingCommands \cup
    {<<"h">>, <<"h", "e", "l", "p">>, <<"q">>, <<"q", "u", "i", "t">>,
     <<"c", "t", "x">>, <<"c", "o", "n", "t", "e", "x", "t">>,
     <<"p">>, <<"p", "r", "o", "g", "r", "a", "m">>, <<"t">>, <<"t", "a", "p", "e">>,
     <<"b">>, <<"b", "r", "e", "a", "k">>, <<"c", "l">>, <<"c", "l", "e", "a", "r">>}

\* A command the loop does not know changes nothing of the Interpreter and
\* of `running`, and is reported with the line as it was read.
C24_UnknownIsReported ==
    [][(Commanded /\ Command \notin KnownCommands) =>
          /\ printed' = <<"Unknown command:", to_lowercase(trim(dbg_input'))>>
          /\ dbg' = "prompt"
          /\ UNCHANGED <<pc, ptr, tape, current_unit, breakpoints, input, output,
                         call, result, step_ret, running>>]_vars

\* A line of blanks only executes the command of the turn before, any other
\* line executes what it holds.
C24_EmptyRepeats ==
    [][(dbg = "prompt" /\ line_read' \in DebugLines) =>
          dbg_input' = IF trim(line_read') = <<>> THEN dbg_input
                       ELSE to_lowercase(trim(line_read'))]_vars

\* No line read by the loop ends it with a panic.
C24_NoCrash == [](dbg # "panic")

\* C24: for every sequence of lines the loop reads, an empty line as the
\* first one and empty lines in a row included, an unknown command is
\* reported and changes nothing of the Interpreter, an empty line executes
\* the most recent non-empty command again, and no line makes the loop
\* panic.
C24_CommandLoop ==
    /\ C24_UnknownIsReported
    /\ C24_EmptyRepeats
    /\ C24_NoCrash

====
